---- MODULE Spec2Model ----
(***************************************************************************)
(* A model of rabbitmq_rest_client.go: the resource fetcher (getResource), *)
(* the snapshot aggregator (BrokerInfo) and the per-resource accessors.    *)
(*                                                                         *)
(* A call is one invocation of a public method of RabbitHTTPClient.  Each  *)
(* getResource invocation owns one goroutine and one unbuffered channel;   *)
(* the pair is the "fetcher" of (call, resource).  A send on the channel   *)
(* is a rendezvous with the receive of the call that holds the channel.    *)
(***************************************************************************)
EXTENDS Integers, Sequences, FiniteSets, TLC

\* const numExpectedResources = 6
numExpectedResources == 6

\* The number of distinct JSON documents the broker may serve for a resource.
MaxDocs == 2

\* The concurrent invocations of public methods that are modelled.
Calls == {1, 2}

\* The six resources, in the order in which BrokerInfo starts their fetches.
Resources == <<"overview", "connections", "exchanges", "queues", "consumers", "bindings">>

ResSet == {Resources[i] : i \in 1..Len(Resources)}

---------------------------------------------------------------------------
(* Values: errors, decoded Go values, result pointers, httpResponse.       *)

\* The nil error.
NilErr == [kind |-> "nil"]

\* An error value.  `at` is the identity of the error object: the fetcher
\* (call, resource) that created it.
NewErr(kind, text, c, k) == [kind |-> kind, text |-> text, at |-> <<c, k>>]

\* The zero value of the Go type of resource k (reflect.New(request.t), and
\* the fields of a fresh BrokerInfo).
ZeroValue(k) == [typ |-> k, fill |-> "zero", doc |-> 0]

\* The nil interface value held by a zero httpResponse.
NilResult == [typ |-> "nil"]

\* type httpResponse struct { result interface{}; err error }, zero value.
ZeroResponse == [result |-> NilResult, err |-> NilErr]

\* The JSON shape each request expects: reflect.TypeOf(RabbitOverview{}) is a
\* struct, every other request type is a slice.
ShapeOf(k) == IF k = "overview" THEN "object" ELSE "array"

\* resp.Status for resp.StatusCode, as net/http reports it.
StatusText(code) ==
    CASE code = 200 -> "200 OK"
      [] code = 204 -> "204 No Content"
      [] code = 404 -> "404 Not Found"
      [] code = 503 -> "503 Service Unavailable"

\* Response bodies.  A body is either not JSON at all, or the JSON text
\* null, or a JSON document: an object or an array, empty (doc 0: {} or [])
\* or with content (doc 1..MaxDocs).  Of a document with content: known says
\* whether it holds a member the Go struct declares, with a value other than
\* that member's zero value (encoding/json ignores members the struct does
\* not declare); typed says whether its members have the JSON types the
\* struct expects; chd is the JSON type of the channel_details member its
\* elements carry.
GarbageBody == [valid |-> FALSE, shape |-> "none", typed |-> FALSE, doc |-> 0, chd |-> "object", known |-> FALSE]

NullBody == [valid |-> TRUE, shape |-> "null", typed |-> TRUE, doc |-> 0, chd |-> "object", known |-> FALSE]

EmptyBodies == [valid : {TRUE}, shape : {"object", "array"}, typed : {TRUE}, doc : {0}, chd : {"object"}, known : {FALSE}]

JsonBodies == [valid : {TRUE}, shape : {"object", "array"}, typed : BOOLEAN, doc : 1..MaxDocs, chd : {"object", "array"}, known : BOOLEAN]

Bodies == {GarbageBody, NullBody} \cup EmptyBodies \cup JsonBodies

\* func (d *ChannelDetails) UnmarshalJSON(data []byte) error: a JSON array
\* where the object is expected is accepted and d is left as it was; any
\* other data is decoded into d.
ChannelDetailsUnmarshalJSON(data) == IF data = "array" THEN "unchanged" ELSE "decoded"

\* What decoding a document with content, of the shape k expects, leaves in
\* the value: a struct none of whose fields the document sets stays at its
\* zero value; a slice gets one element per element of the array, each left
\* blank when the document sets none of its fields; a member of the wrong
\* JSON type is skipped; of the six types only []RabbitConsumer holds a
\* ChannelDetails.
DecodedFill(k, body) ==
    IF ~body.known THEN (IF ShapeOf(k) = "object" THEN "zero" ELSE "blank")
    ELSE IF ~body.typed THEN "partial"
    ELSE IF k = "consumers" /\ ChannelDetailsUnmarshalJSON(body.chd) = "unchanged" THEN "nochd"
    ELSE "full"

\* json.Unmarshal(buf.Bytes(), r) for r = reflect.New(type of k): the value r
\* points to afterwards, and the error.  A syntax error leaves r untouched;
\* null is accepted and leaves r at its zero value; {} fills no field of a
\* struct and [] makes an empty slice; a value of the wrong JSON type is
\* skipped (r keeps what else was decoded) and reported as an
\* UnmarshalTypeError.
Unmarshal(k, body, c) ==
    IF ~body.valid
      THEN [val |-> ZeroValue(k), err |-> NewErr("decode", "SyntaxError", c, k)]
    ELSE IF body.shape = "null"
      THEN [val |-> ZeroValue(k), err |-> NilErr]
    ELSE IF body.shape # ShapeOf(k)
      THEN [val |-> ZeroValue(k), err |-> NewErr("decode", "UnmarshalTypeError", c, k)]
    ELSE IF body.doc = 0
      THEN [val |-> IF ShapeOf(k) = "object" THEN ZeroValue(k)
                    ELSE [typ |-> k, fill |-> "empty", doc |-> 0],
            err |-> NilErr]
    ELSE [val |-> IF DecodedFill(k, body) = "zero" THEN ZeroValue(k)
                  ELSE [typ |-> k, fill |-> DecodedFill(k, body), doc |-> body.doc],
          err |-> IF body.typed THEN NilErr
                  ELSE NewErr("decode", "UnmarshalTypeError", c, k)]

---------------------------------------------------------------------------
(* The network as a fetcher meets it.                                      *)

TransportFailures == {"refused", "tls", "timeout"}

Statuses == {200, 204, 404, 503}

\* What one HTTP GET meets: the transport fails, or a response with a status
\* and a body arrives.
NetFail(t) == [tr |-> t, st |-> 0, body |-> GarbageBody]

NetResp(st, body) == [tr |-> "ok", st |-> st, body |-> body]

FullNet == {NetFail(t) : t \in TransportFailures} \cup {NetResp(st, b) : st \in Statuses, b \in Bodies}

\* The document served to a call is the call's own, so that values of
\* different calls differ.
GoodBody(k, c) == [valid |-> TRUE, shape |-> ShapeOf(k), typed |-> TRUE, doc |-> c, chd |-> "object", known |-> TRUE]

\* The network of the aggregation run: a transport failure, a refusal by
\* status, and a good document.
StepNet(c, k) == { NetFail("refused"), NetResp(404, GarbageBody), NetResp(200, GoodBody(k, c)) }

\* The network of the all-success run: every request is answered 200 with a
\* body json.Unmarshal accepts: a good document, or null, or, for the
\* overview, an object that sets no field RabbitOverview declares.
OkNet(c, k) ==
    { NetResp(200, GoodBody(k, c)), NetResp(200, NullBody) }
      \cup (IF k = "overview" THEN { NetResp(200, [GoodBody(k, c) EXCEPT !.known = FALSE]) } ELSE {})

\* The network of the termination run: a request fails or succeeds.
LiveNet(c, k) == { NetFail("refused"), NetResp(200, GoodBody(k, c)) }

\* The network of the run over every path of getResource: each resource is
\* served a good document or meets one other outcome, a different one for
\* each resource.
MixNet(c, k) ==
    { NetResp(200, GoodBody(k, c)),
      CASE k = "overview"    -> NetFail("refused")
        [] k = "connections" -> NetResp(404, GarbageBody)
        [] k = "exchanges"   -> NetResp(200, GarbageBody)
        [] k = "queues"      -> NetResp(200, [GoodBody(k, c) EXCEPT !.typed = FALSE])
        [] k = "consumers"   -> NetResp(200, [GoodBody(k, c) EXCEPT !.chd = "array"])
        [] k = "bindings"    -> NetResp(200, NullBody) }

---------------------------------------------------------------------------
(* The fetcher: the goroutine of getResource, as a function of its local   *)
(* state.                                                                  *)

NoNet == [tr |-> "-"]

NoResp == [StatusCode |-> 0]

IdleFetcher == [pc |-> "idle", net |-> NoNet, resp |-> NoResp, out |-> ZeroResponse]

\* r := reflect.New(request.t).Interface(): a non-nil pointer to a value of
\* the type of the request.
NewResult(k, val) == [typ |-> k, val |-> val]

\* resp.StatusCode != 200
BadStatus(code) == code # 200

\* res := make(chan httpResponse); go func() {...}(); return res
StartFetcher(f) == [f EXCEPT !.pc = "get"]

\* A transport error path that sends httpResponse{err: err}, with no result.
GetStepNoResult(f, c, k, net) ==
    IF net.tr # "ok"
      THEN [f EXCEPT !.pc = "send", !.net = net,
                     !.out = [result |-> NilResult,
                              err |-> NewErr("transport", net.tr, c, k)]]
      ELSE [f EXCEPT !.pc = "status", !.net = net,
                     !.resp = [StatusCode |-> net.st, Status |-> StatusText(net.st),
                               Body |-> net.body, closed |-> FALSE, deferClose |-> FALSE]]

\* resp, err := s.client.Get(request.uri), and the transport error path.
GetStep(f, c, k, net) ==
    IF net.tr # "ok"
      THEN [f EXCEPT !.pc = "send", !.net = net,
                     !.out = [result |-> NewResult(k, ZeroValue(k)),
                              err |-> NewErr("transport", net.tr, c, k)]]
      ELSE [f EXCEPT !.pc = "status", !.net = net,
                     !.resp = [StatusCode |-> net.st, Status |-> StatusText(net.st),
                               Body |-> net.body, closed |-> FALSE, deferClose |-> FALSE]]

\* if resp.StatusCode != 200 { err := errors.New(resp.Status); ... }
\* and otherwise: defer resp.Body.Close()
StatusStep(f, c, k) ==
    IF BadStatus(f.resp.StatusCode)
      THEN [f EXCEPT !.pc = "send",
                     !.out = [result |-> NewResult(k, ZeroValue(k)),
                              err |-> NewErr("status", f.resp.Status, c, k)]]
      ELSE [f EXCEPT !.pc = "read", !.resp.deferClose = TRUE]

\* buf.ReadFrom(resp.Body); err = json.Unmarshal(buf.Bytes(), r)
DecodeStep(f, c, k) ==
    LET u == Unmarshal(k, f.resp.Body, c)
    IN  [f EXCEPT !.pc = "send", !.out = [result |-> NewResult(k, u.val), err |-> u.err]]

\* A fetcher that, after its send, is again ready to send the same result.
SendAgain(f) == [f EXCEPT !.pc = "send"]

\* The send res <- httpResponse{...} has met a receiver: the goroutine returns
\* and its deferred Close, if registered, runs.
SendDone(f) ==
    [f EXCEPT !.pc = "done",
              !.resp = IF f.resp # NoResp /\ f.resp.deferClose
                         THEN [f.resp EXCEPT !.closed = TRUE] ELSE f.resp]

---------------------------------------------------------------------------
VARIABLES
    op,       \* op[c]: the method call c executes ("none" before it is invoked)
    pc,       \* pc[c]: where call c stands
    fetcher,  \* fetcher[c][k]: the getResource goroutine of call c for resource k
    count,    \* count[c]: BrokerInfo's completion counter
    r,        \* r[c]: BrokerInfo's named result r, the snapshot under construction
    err,      \* err[c]: BrokerInfo's named result err
    ret,      \* ret[c]: what an accessor returned
    nrecv,    \* nrecv[c][k]: how often call c's loop has received on channel k
    del,      \* del[c]: the delResource run of a CloseConnection call
    api       \* the client-side Api object: its broker Subject and subscribers

vars == <<op, pc, fetcher, count, r, err, ret, nrecv, del, api>>

\* var r BrokerInfo: every field at its zero value.
EmptySnapshot == [k \in ResSet |-> ZeroValue(k)]

NoRet == [val |-> NilResult, err |-> NilErr]

\* A CloseConnection call that has not run.
NoDel == [conn |-> "-", net |-> NoNet, resp |-> NoResp, err |-> NilErr]

\* constructor(): this.broker = new Subject(), nobody subscribed, no request
\* made.
NewApi == [nextId |-> 1, reqs |-> <<>>, log |-> <<>>]

\* NewRabbitHTTPClient: a client, and no call in progress.
Init ==
    /\ op = [c \in Calls |-> "none"]
    /\ pc = [c \in Calls |-> "idle"]
    /\ fetcher = [c \in Calls |-> [k \in ResSet |-> IdleFetcher]]
    /\ count = [c \in Calls |-> 0]
    /\ r = [c \in Calls |-> EmptySnapshot]
    /\ err = [c \in Calls |-> NilErr]
    /\ ret = [c \in Calls |-> NoRet]
    /\ nrecv = [c \in Calls |-> [k \in ResSet |-> 0]]
    /\ del = [c \in Calls |-> NoDel]
    /\ api = NewApi

---------------------------------------------------------------------------
(* BrokerInfo.                                                             *)

\* overview := s.getOverview() ... bindings := s.getBindings(): the channel
\* that call c's local variable for resource k holds is the one its own
\* getResource invocation made.
ChanOf(c, k) == <<c, k>>

\* The shadowing of res reaching a second case of the select.
OuterResShadowTwo(k, msg) == IF k \in {"overview", "connections"} THEN ZeroResponse ELSE msg

\* The outer `var res httpResponse` as line 153 reads it.  The overview case
\* declares a new res with `:=`, so the outer one keeps its zero value there;
\* the other five cases assign the received value to it.
OuterRes(k, msg) == IF k = "overview" THEN ZeroResponse ELSE msg

\* A merge that rebuilds the snapshot around the field it writes.
MergeReset(snap, k, msg) == [EmptySnapshot EXCEPT ![k] = msg.result.val]

\* r.Overview = *(res.result.(*RabbitOverview)), r.Connections = ..., each case
\* writing the field of its own resource.
Merge(snap, k, msg) == [snap EXCEPT ![k] = msg.result.val]

\* func (s RabbitHTTPClient) BrokerInfo() (r BrokerInfo, err error): entry.
InvokeBrokerInfo(c) ==
    /\ op[c] = "none"
    /\ op' = [op EXCEPT ![c] = "BrokerInfo"]
    /\ pc' = [pc EXCEPT ![c] = "spawn"]
    /\ count' = [count EXCEPT ![c] = 0]
    /\ r' = [r EXCEPT ![c] = EmptySnapshot]
    /\ err' = [err EXCEPT ![c] = NilErr]
    /\ UNCHANGED <<fetcher, ret, nrecv, del, api>>

\* The index in Resources of the next fetch BrokerInfo starts.
NextToStart(c) ==
    CHOOSE i \in 1..Len(Resources) :
        /\ fetcher[c][Resources[i]].pc = "idle"
        /\ \A j \in 1..(i - 1) : fetcher[c][Resources[j]].pc # "idle"

\* A get...() call that is synchronous: it starts its request only when no
\* request started earlier is still under way.
SpawnBlocking(c) ==
    /\ op[c] = "BrokerInfo"
    /\ pc[c] = "spawn"
    /\ \A k \in ResSet : fetcher[c][k].pc # "get"
    /\ LET i == NextToStart(c)
       IN  /\ fetcher' = [fetcher EXCEPT ![c][Resources[i]] = StartFetcher(@)]
           /\ pc' = [pc EXCEPT ![c] = IF i = Len(Resources) THEN "select" ELSE "spawn"]
    /\ UNCHANGED <<op, count, r, err, ret, nrecv, del, api>>

\* One of the six get...() calls: it starts the goroutine and returns its
\* channel at once.  After the sixth the loop is entered.
Spawn(c) ==
    /\ op[c] = "BrokerInfo"
    /\ pc[c] = "spawn"
    /\ LET i == NextToStart(c)
       IN  /\ fetcher' = [fetcher EXCEPT ![c][Resources[i]] = StartFetcher(@)]
           /\ pc' = [pc EXCEPT ![c] = IF i = Len(Resources) THEN "select" ELSE "spawn"]
    /\ UNCHANGED <<op, count, r, err, ret, nrecv, del, api>>

\* A loop-exit test that is off by one: the loop ends a completion too early.
LoopDoneEarly(n) == n >= numExpectedResources - 1

\* A loop condition that no count satisfies.
LoopDoneNever(n) == n > numExpectedResources

\* if count == numExpectedResources { return }
LoopDone(n) == n = numExpectedResources

\* res.result.(*T) for the T of resource k: the assertion holds when the
\* interface holds a non-nil pointer of that type, and panics otherwise.
TypeAssertOK(k, msg) == msg.result.typ = k

\* One iteration of the for loop, from the receive that the select chose
\* (channel of resource k, message msg) to the return or the next iteration.
BrokerInfoStep(c, k, msg) ==
    /\ nrecv' = [nrecv EXCEPT ![c][k] = @ + 1]
    /\ IF ~TypeAssertOK(k, msg)
         THEN /\ pc' = [pc EXCEPT ![c] = "panic"]
              /\ UNCHANGED <<r, err, count>>
         ELSE LET res == OuterRes(k, msg)
              IN  /\ r' = [r EXCEPT ![c] = Merge(r[c], k, msg)]
                  /\ IF res.err # NilErr
                       THEN /\ err' = [err EXCEPT ![c] = res.err]
                            /\ pc' = [pc EXCEPT ![c] = "returned"]
                            /\ count' = count
                       ELSE /\ err' = err
                            /\ count' = [count EXCEPT ![c] = @ + 1]
                            /\ pc' = [pc EXCEPT ![c] = IF LoopDone(count[c] + 1)
                                                         THEN "returned" ELSE "select"]

\* A select with a timeout case: besides receiving, the call may give up on
\* a fetch whose request is still under way and return what it has.
RecvTimeout(c, k) ==
    LET s == ChanOf(c, k)
        f == fetcher[s[1]][s[2]]
    IN  /\ op[c] = "BrokerInfo"
        /\ pc[c] = "select"
        /\ \/ /\ f.pc = "send"
              /\ BrokerInfoStep(c, k, f.out)
              /\ fetcher' = [fetcher EXCEPT ![s[1]][s[2]] = SendDone(f)]
           \/ /\ f.pc = "get"
              /\ pc' = [pc EXCEPT ![c] = "returned"]
              /\ UNCHANGED <<fetcher, count, r, err, nrecv>>
        /\ UNCHANGED <<op, ret, del, api>>

\* The select of call c receives on the channel of resource k from the
\* goroutine blocked in its send there, and the iteration runs.
Recv(c, k) ==
    LET s == ChanOf(c, k)
        f == fetcher[s[1]][s[2]]
    IN  /\ op[c] = "BrokerInfo"
        /\ pc[c] = "select"
        /\ f.pc = "send"
        /\ BrokerInfoStep(c, k, f.out)
        /\ fetcher' = [fetcher EXCEPT ![s[1]][s[2]] = SendDone(f)]
        /\ UNCHANGED <<op, ret, del, api>>

---------------------------------------------------------------------------
(* The per-resource accessors, and the fetcher step by step.               *)

AccessorName(k) ==
    CASE k = "overview" -> "Overview"
      [] k = "connections" -> "Connections"
      [] k = "exchanges" -> "Exchanges"
      [] k = "queues" -> "Queues"
      [] k = "consumers" -> "Consumers"
      [] k = "bindings" -> "Bindings"

\* An accessor that returns the value and drops the error.
AccessorResultNoErr(msg) == [val |-> msg.result.val, err |-> NilErr]

\* return *(result.result.(*T)), result.err
AccessorResult(msg) == [val |-> msg.result.val, err |-> msg.err]

\* result := <-s.getConnections() (and its five siblings): the fetch is
\* started and the caller blocks on its channel.
InvokeAccessor(c, k) ==
    /\ op[c] = "none"
    /\ op' = [op EXCEPT ![c] = AccessorName(k)]
    /\ pc' = [pc EXCEPT ![c] = "wait"]
    /\ fetcher' = [fetcher EXCEPT ![c][k] = StartFetcher(@)]
    /\ UNCHANGED <<count, r, err, ret, nrecv, del, api>>

\* The goroutine of fetcher (c, k) performs its GET and meets one of nets.
FetchGetFrom(c, k, nets) ==
    /\ fetcher[c][k].pc = "get"
    /\ \E net \in nets :
          fetcher' = [fetcher EXCEPT ![c][k] = GetStep(@, c, k, net)]
    /\ UNCHANGED <<op, pc, count, r, err, ret, nrecv, del, api>>

FetchGet(c, k) == FetchGetFrom(c, k, FullNet)

FetchGetStep(c, k) == FetchGetFrom(c, k, StepNet(c, k))

FetchGetOk(c, k) == FetchGetFrom(c, k, OkNet(c, k))

FetchGetLive(c, k) == FetchGetFrom(c, k, LiveNet(c, k))

FetchGetMix(c, k) == FetchGetFrom(c, k, MixNet(c, k))

FetchStatus(c, k) ==
    /\ fetcher[c][k].pc = "status"
    /\ fetcher' = [fetcher EXCEPT ![c][k] = StatusStep(@, c, k)]
    /\ UNCHANGED <<op, pc, count, r, err, ret, nrecv, del, api>>

FetchDecode(c, k) ==
    /\ fetcher[c][k].pc = "read"
    /\ fetcher' = [fetcher EXCEPT ![c][k] = DecodeStep(@, c, k)]
    /\ UNCHANGED <<op, pc, count, r, err, ret, nrecv, del, api>>

\* The accessor receives the single completion and returns (or panics in
\* its type assertion).
AccessorRecv(c, k) ==
    /\ op[c] = AccessorName(k)
    /\ pc[c] = "wait"
    /\ fetcher[c][k].pc = "send"
    /\ IF TypeAssertOK(k, fetcher[c][k].out)
         THEN /\ ret' = [ret EXCEPT ![c] = AccessorResult(fetcher[c][k].out)]
              /\ pc' = [pc EXCEPT ![c] = "returned"]
         ELSE /\ ret' = ret
              /\ pc' = [pc EXCEPT ![c] = "panic"]
    /\ fetcher' = [fetcher EXCEPT ![c][k] = SendDone(@)]
    /\ UNCHANGED <<op, count, r, err, nrecv, del, api>>

---------------------------------------------------------------------------
(* The client-side bridging layer: class Api of initialState.js.           *)

\* Requests the client issues, and calls of window.response the host makes.
MaxReqs == 2

MaxEvents == 3

ResponseTypes == {"LOGIN_RESPONSE", "TAP", "LOGIN"}

ResponseStatuses == {"SUCCESS", "FAILURE"}

\* The response argument of window.response: a JSON text, or a text that is
\* not JSON.
Payloads == {"{\"ok\":true}", "{"}

\* JSON.parse(response): the value, or a SyntaxError thrown.
JSONParse(text) ==
    IF text = "{\"ok\":true}"
      THEN [thrown |-> FALSE, value |-> [ok |-> TRUE]]
      ELSE [thrown |-> TRUE, value |-> "SyntaxError"]

\* The response type each kind of request filters on.
PipeType(kind) == IF kind = "login" THEN "LOGIN_RESPONSE" ELSE "TAP"

\* A pipe without its first filter: it takes the responses of any request.
FilterResIdAny(e, reqId) == TRUE

\* filter(e => e.resId === reqId)
FilterResId(e, reqId) == e.resId = reqId

\* filter(e => e.type === 'LOGIN_RESPONSE'), filter(e => e.type === 'TAP')
FilterType(e, type) == e.type = type

\* The pipe of login() on event e, the n-th call of response: the two
\* filters, the map that returns e.response or throws, and take(1), which
\* completes with the first item.  A throw in map ends the observable with
\* an error.
LoginPipe(q, e, n) ==
    IF ~FilterResId(e, q.id) THEN q
    ELSE IF ~FilterType(e, "LOGIN_RESPONSE") THEN q
    ELSE IF e.status = "SUCCESS"
           THEN [q EXCEPT !.items = Append(@, [ev |-> n, val |-> e.response]),
                          !.sub = "completed"]
           ELSE [q EXCEPT !.sub = "errored"]

\* The pipe of startTap() on event e: the two filters and the map that
\* returns e.response.
TapPipe(q, e, n) ==
    IF ~FilterResId(e, q.id) THEN q
    ELSE IF ~FilterType(e, "TAP") THEN q
    ELSE [q EXCEPT !.items = Append(@, [ev |-> n, val |-> e.response])]

\* this.broker.next(res) as seen by the observable of request q: a Subject
\* hands the event to the subscriptions that are open, and replays nothing.
BrokerNext(q, e, n) ==
    IF q.sub # "open" THEN q
    ELSE IF q.kind = "login" THEN LoginPipe(q, e, n)
    ELSE TapPipe(q, e, n)

\* request(type, content): a fresh id (uuid.v4()) goes to the host with the
\* request; the caller gets the observable piped from the broker, not yet
\* subscribed.
request(kind) ==
    /\ api.nextId <= MaxReqs
    /\ api' = [api EXCEPT !.nextId = @ + 1,
                          !.reqs = Append(@, [id |-> api.nextId, kind |-> kind,
                                              sub |-> "none", subAt |-> 0,
                                              items |-> <<>>])]
    /\ UNCHANGED <<op, pc, fetcher, count, r, err, ret, nrecv, del>>

login == request("login")

startTap == request("tap")

\* The caller subscribes to the observable it was given for its i-th request.
Subscribe(i) ==
    /\ i \in 1..Len(api.reqs)
    /\ api.reqs[i].sub = "none"
    /\ api' = [api EXCEPT !.reqs[i].sub = "open", !.reqs[i].subAt = Len(api.log)]
    /\ UNCHANGED <<op, pc, fetcher, count, r, err, ret, nrecv, del>>

\* window.response(type, resId, status, response, err), called by the host:
\* JSON.parse throws on a text that is not JSON and nothing is published;
\* otherwise the event goes to the broker.  The err argument is stored in the
\* event and read by no pipe.
response(type, resId, status, text) ==
    LET parsed == JSONParse(text)
        n == Len(api.log) + 1
        res == [resId |-> resId, type |-> type, status |-> status,
                thrown |-> parsed.thrown, response |-> parsed.value]
    IN  /\ Len(api.log) < MaxEvents
        /\ api' = [api EXCEPT !.log = Append(@, res),
                              !.reqs = IF parsed.thrown THEN @
                                       ELSE [i \in 1..Len(@) |-> BrokerNext(@[i], res, n)]]
        /\ UNCHANGED <<op, pc, fetcher, count, r, err, ret, nrecv, del>>

---------------------------------------------------------------------------
(* CloseConnection and delResource.                                        *)

\* The conn argument of CloseConnection.  "%zz" is not a valid URL escape.
ConnNames == {"conn-1", "conn-2", "%zz"}

\* http.NewRequest("DELETE", uri, nil) succeeds: the URI parses.
ValidURI(conn) == conn # "%zz"

\* What the DELETE request meets.
DelNet == {NetFail(t) : t \in TransportFailures} \cup {NetResp(st, GarbageBody) : st \in Statuses}

\* A status check that takes 200 alone for success.
DelBadStatusOnly200(code) == code # 200

\* resp.StatusCode != 200 && resp.StatusCode != 204
DelBadStatus(code) == code # 200 /\ code # 204

\* delResource, lines 71-74: req, err := http.NewRequest("DELETE", uri, nil)
\* for the URI of connection conn; on an error the call returns it.
delRequest(conn, c) ==
    [conn |-> conn, net |-> NoNet, resp |-> NoResp,
     err |-> IF ValidURI(conn) THEN NilErr
             ELSE NewErr("request", "invalid URL escape", c, conn)]

\* delResource, lines 76-84, once s.client.Do(req) has returned with net: the
\* error returned, and the response as it is left.
delResponse(d, net, c) ==
    IF net.tr # "ok"
      THEN [d EXCEPT !.net = net, !.err = NewErr("transport", net.tr, c, d.conn)]
    ELSE LET resp == [StatusCode |-> net.st, Status |-> StatusText(net.st),
                      Body |-> net.body, closed |-> FALSE, deferClose |-> FALSE]
         IN  IF DelBadStatus(resp.StatusCode)
               THEN [d EXCEPT !.net = net, !.resp = resp,
                              !.err = NewErr("status", resp.Status, c, d.conn)]
               ELSE [d EXCEPT !.net = net,
                              !.resp = [resp EXCEPT !.deferClose = TRUE, !.closed = TRUE]]

\* func (s RabbitHTTPClient) CloseConnection(conn, reason string) error: the
\* call enters delResource and builds its request; it returns the error of
\* http.NewRequest, or goes on to wait in s.client.Do.
CloseConnection(c) ==
    /\ op[c] = "none"
    /\ \E conn \in ConnNames :
          /\ del' = [del EXCEPT ![c] = delRequest(conn, c)]
          /\ pc' = [pc EXCEPT ![c] = IF ValidURI(conn) THEN "do" ELSE "returned"]
    /\ op' = [op EXCEPT ![c] = "CloseConnection"]
    /\ UNCHANGED <<fetcher, count, r, err, ret, nrecv, api>>

\* s.client.Do(req) returns, and delResource runs to its return.
ClientDo(c) ==
    /\ op[c] = "CloseConnection"
    /\ pc[c] = "do"
    /\ \E net \in DelNet :
          del' = [del EXCEPT ![c] = delResponse(del[c], net, c)]
    /\ pc' = [pc EXCEPT ![c] = "returned"]
    /\ UNCHANGED <<op, fetcher, count, r, err, ret, nrecv, api>>

---------------------------------------------------------------------------
(* Specifications.                                                         *)

\* One BrokerInfo call and its six fetchers, each running step by step:
\* request, status check, decode, send.
Next ==
    \/ InvokeBrokerInfo(1)
    \/ Spawn(1)
    \/ \E k \in ResSet : FetchGetStep(1, k)
    \/ \E k \in ResSet : FetchStatus(1, k)
    \/ \E k \in ResSet : FetchDecode(1, k)
    \/ \E k \in ResSet : Recv(1, k)

Spec == Init /\ [][Next]_vars

\* The same call when every request is answered 200 with an acceptable body.
NextOk ==
    \/ InvokeBrokerInfo(1)
    \/ Spawn(1)
    \/ \E k \in ResSet : FetchGetOk(1, k)
    \/ \E k \in ResSet : FetchStatus(1, k)
    \/ \E k \in ResSet : FetchDecode(1, k)
    \/ \E k \in ResSet : Recv(1, k)

SpecOk == Init /\ [][NextOk]_vars

\* The same call under the Go scheduler: a goroutine that stays runnable is
\* eventually run, so the aggregator takes a receive that stays possible.
\* Nothing obliges a request to complete.
NextLive ==
    \/ InvokeBrokerInfo(1)
    \/ Spawn(1)
    \/ \E k \in ResSet : FetchGetLive(1, k)
    \/ \E k \in ResSet : FetchStatus(1, k)
    \/ \E k \in ResSet : FetchDecode(1, k)
    \/ \E k \in ResSet : Recv(1, k)

FairSpec ==
    /\ Init /\ [][NextLive]_vars
    /\ WF_vars(Spawn(1))
    /\ WF_vars(\E k \in ResSet : Recv(1, k))

\* One call, a BrokerInfo or an accessor, whose fetchers between them meet
\* every path of getResource.
NextMix ==
    \/ InvokeBrokerInfo(1)
    \/ Spawn(1)
    \/ \E k \in ResSet : InvokeAccessor(1, k)
    \/ \E k \in ResSet : FetchGetMix(1, k)
    \/ \E k \in ResSet : FetchStatus(1, k)
    \/ \E k \in ResSet : FetchDecode(1, k)
    \/ \E k \in ResSet : Recv(1, k)
    \/ \E k \in ResSet : AccessorRecv(1, k)

SpecMix == Init /\ [][NextMix]_vars

\* One accessor call, its fetcher taken step by step against every network.
NextAcc ==
    \/ \E k \in ResSet : InvokeAccessor(1, k)
    \/ \E k \in ResSet : FetchGet(1, k)
    \/ \E k \in ResSet : FetchStatus(1, k)
    \/ \E k \in ResSet : FetchDecode(1, k)
    \/ \E k \in ResSet : AccessorRecv(1, k)

SpecAcc == Init /\ [][NextAcc]_vars

---------------------------------------------------------------------------
(* Properties.                                                             *)

\* Fetcher (c, k) has produced its result (it is sending it or has sent it).
HasOutcome(c, k) == fetcher[c][k].pc \in {"send", "done"}

\* Fetcher (c, k) has produced a result that carries an error.
Failed(c, k) == HasOutcome(c, k) /\ fetcher[c][k].out.err # NilErr

\* The value fetcher (c, k) produced.
Produced(c, k) == fetcher[c][k].out.result.val

\* Call c is a BrokerInfo call that has returned.
Returned(c) == op[c] = "BrokerInfo" /\ pc[c] = "returned"

FailedSet(c) == {k \in ResSet : Failed(c, k)}

AllOutcomes(c) == \A k \in ResSet : HasOutcome(c, k)

\* C1: whenever BrokerInfo returns a nil error, all six fetches completed
\* without error and every field of the snapshot holds the value of its
\* successful fetch.
C1_CompleteOrAbsent ==
    \A c \in Calls :
        (Returned(c) /\ err[c] = NilErr) =>
            \A k \in ResSet :
                /\ fetcher[c][k].pc = "done"
                /\ fetcher[c][k].out.err = NilErr
                /\ r[c][k] = Produced(c, k)

\* C2: when exactly one of the six fetches ends with an error and the other
\* five succeed, BrokerInfo returns exactly that error.
C2_SingleFailureReported ==
    \A c \in Calls :
        (Returned(c) /\ AllOutcomes(c) /\ Cardinality(FailedSet(c)) = 1) =>
            \A k \in FailedSet(c) : err[c] = fetcher[c][k].out.err

\* C3, as stated: when all six fetches succeed, BrokerInfo returns only
\* after consuming all six, with a nil error and with every field equal to
\* the value its own fetch produced, none at its initial value; and once all
\* six are consumed it has returned.
C3_AllSuccess ==
    \A c \in Calls :
        (op[c] = "BrokerInfo" /\ AllOutcomes(c) /\ FailedSet(c) = {}) =>
            /\ Returned(c) =>
                  /\ err[c] = NilErr
                  /\ \A k \in ResSet :
                        /\ r[c][k] = Produced(c, k)
                        /\ r[c][k] # ZeroValue(k)
                        /\ r[c][k].typ = k
            /\ (\A k \in ResSet : fetcher[c][k].pc = "done") => Returned(c)

\* C3, amended: when all six fetches succeed, BrokerInfo returns only after
\* consuming all six, with a nil error and with every field written once,
\* by the iteration of its own resource, with the value its own fetch
\* produced; a field then equals its initial value only if that is what its
\* fetch decoded (a body null, or for the overview an object that sets none
\* of its fields); and once all six are consumed it has returned.
C3_AllSuccessWritten ==
    \A c \in Calls :
        (op[c] = "BrokerInfo" /\ AllOutcomes(c) /\ FailedSet(c) = {}) =>
            /\ Returned(c) =>
                  /\ err[c] = NilErr
                  /\ \A k \in ResSet :
                        /\ nrecv[c][k] = 1
                        /\ r[c][k] = Produced(c, k)
                        /\ r[c][k].typ = k
                        /\ r[c][k] = ZeroValue(k) =>
                              \/ fetcher[c][k].resp.Body.shape = "null"
                              \/ /\ k = "overview"
                                 /\ \/ fetcher[c][k].resp.Body.doc = 0
                                    \/ ~fetcher[c][k].resp.Body.known
            /\ (\A k \in ResSet : fetcher[c][k].pc = "done") => Returned(c)

C3_Witness ==
    /\ Returned(1)
    /\ FailedSet(1) = {}
    /\ \A k \in ResSet : fetcher[1][k].pc = "done"
    /\ r[1]["overview"] = ZeroValue("overview")
    /\ fetcher[1]["overview"].resp.Body.doc = 1
    /\ r[1]["connections"] = ZeroValue("connections")
    /\ r[1]["queues"].fill = "full"

\* C4: the iteration that consumes a completion carrying an error returns
\* that error at once.
C4_FirstErrorAbort ==
    [][ \A c \in Calls : \A k \in ResSet :
          ( /\ op[c] = "BrokerInfo"
            /\ fetcher[c][k].pc = "send"
            /\ fetcher'[c][k].pc = "done"
            /\ fetcher[c][k].out.err # NilErr )
          => (pc'[c] = "returned" /\ err'[c] = fetcher[c][k].out.err) ]_vars

\* C5: once BrokerInfo has returned and all six HTTP requests have finished,
\* every fetcher goroutine has terminated: none is left in its send.
C5_NoLeakedFetchers ==
    \A c \in Calls :
        (Returned(c) /\ AllOutcomes(c)) =>
            \A k \in ResSet : fetcher[c][k].pc = "done"

\* C6: when exactly two of the six fetches end with errors, BrokerInfo
\* returns a non-nil error, and it is one of those two.
C6_TwoFailures ==
    \A c \in Calls :
        (Returned(c) /\ AllOutcomes(c) /\ Cardinality(FailedSet(c)) = 2) =>
            /\ err[c] # NilErr
            /\ \E k \in FailedSet(c) : err[c] = fetcher[c][k].out.err

C6_Witness ==
    /\ Returned(1)
    /\ AllOutcomes(1)
    /\ FailedSet(1) = {"overview", "queues"}
    /\ fetcher[1]["overview"].pc = "done"
    /\ err[1] = fetcher[1]["queues"].out.err

\* C7: whenever BrokerInfo returns a non-nil error, the snapshot it returns
\* with it is the empty snapshot.
C7_NoPartialData ==
    \A c \in Calls :
        (Returned(c) /\ err[c] # NilErr) => r[c] = EmptySnapshot

\* Whether a body decodes cleanly into the shape resource k expects: it is a
\* JSON document of that shape (an object for the overview, an array for
\* the five lists) whose members have the expected types.  A channel_details
\* member given as an array is among the expected: ChannelDetails.UnmarshalJSON
\* takes it.
Decodes(k, body) == body.valid /\ body.shape = ShapeOf(k) /\ body.typed

\* C9: the result a fetcher delivers has a nil error exactly when
\* the transport succeeded, the status is 200 and the body decodes into the
\* expected shape; a transport failure gives the transport error, any other
\* status (204 too) an error whose text is the status text whatever the
\* body, an undecodable body the decode error.
C9_FetcherOutcome ==
    \A c \in Calls : \A k \in ResSet :
        HasOutcome(c, k) =>
            LET f == fetcher[c][k]
                net == f.net
            IN  /\ f.out.err = NilErr <=>
                      (net.tr = "ok" /\ net.st = 200 /\ Decodes(k, net.body))
                /\ net.tr # "ok" =>
                      (f.out.err.kind = "transport" /\ f.out.err.text = net.tr)
                /\ (net.tr = "ok" /\ net.st # 200) =>
                      (f.out.err.kind = "status" /\ f.out.err.text = f.resp.Status)
                /\ (net.tr = "ok" /\ net.st = 200 /\ ~Decodes(k, net.body)) =>
                      f.out.err.kind = "decode"

\* Call c is an accessor call of resource k.
IsAccessor(c, k) == op[c] = AccessorName(k)

\* C10: an accessor starts exactly one fetch, returns nothing before that
\* fetch's completion, and returns exactly the value and the error of that
\* completion.
C10_Accessor ==
    \A c \in Calls : \A k \in ResSet :
        IsAccessor(c, k) =>
            /\ \A j \in ResSet \ {k} : fetcher[c][j].pc = "idle"
            /\ pc[c] = "wait" => (fetcher[c][k].pc # "done" /\ ret[c] = NoRet)
            /\ pc[c] = "returned" =>
                  /\ fetcher[c][k].pc = "done"
                  /\ ret[c].val = Produced(c, k)
                  /\ ret[c].err = fetcher[c][k].out.err

C10_Witness ==
    /\ IsAccessor(1, "connections")
    /\ pc[1] = "returned"
    /\ fetcher[1]["connections"].out.err.kind = "status"
    /\ ret[1].err.text = "404 Not Found"

\* The bridging layer: requests, subscriptions and host responses in any
\* order.
NextApi ==
    \/ login
    \/ startTap
    \/ \E i \in 1..MaxReqs : Subscribe(i)
    \/ \E type \in ResponseTypes, resId \in 1..MaxReqs, status \in ResponseStatuses, text \in Payloads :
          response(type, resId, status, text)

SpecApi == Init /\ [][NextApi]_vars

\* Two CloseConnection calls, each free to wait in its request while the
\* other runs.
NextDel ==
    \/ \E c \in Calls : CloseConnection(c)
    \/ \E c \in Calls : ClientDo(c)

SpecDel == Init /\ [][NextDel]_vars

\* C11: CloseConnection returns nil exactly when the request could be built,
\* the transport succeeded and the status is 200 or 204; any other status
\* gives an error whose text is the status text ("404 Not Found" for 404), a
\* transport failure the transport error; a call whose request could not be
\* built sends nothing, and a call waits only on a request it has built.
C11_Deletion ==
    \A c \in Calls :
        op[c] = "CloseConnection" =>
            LET d == del[c]
                sent == ValidURI(d.conn)
            IN  /\ pc[c] \in {"do", "returned"}
                /\ pc[c] = "do" => (sent /\ d.net = NoNet /\ d.err = NilErr)
                /\ ~sent => (d.net = NoNet /\ d.err.kind = "request")
                /\ pc[c] = "returned" =>
                      /\ d.err = NilErr <=>
                            (sent /\ d.net.tr = "ok" /\ d.net.st \in {200, 204})
                      /\ (sent /\ d.net.tr = "ok" /\ d.net.st \notin {200, 204}) =>
                            (d.err.kind = "status" /\ d.err.text = d.resp.Status)
                      /\ (sent /\ d.net.tr = "ok" /\ d.net.st = 404) =>
                            d.err.text = "404 Not Found"
                      /\ (sent /\ d.net.tr # "ok") =>
                            (d.err.kind = "transport" /\ d.err.text = d.net.tr)

C11_Witness ==
    /\ op[1] = "CloseConnection" /\ pc[1] = "returned" /\ del[1].net.tr = "ok"
    /\ del[1].net.st = 204 /\ del[1].err = NilErr
    /\ op[2] = "CloseConnection" /\ pc[2] = "returned" /\ del[2].net.tr = "ok"
    /\ del[2].net.st = 404 /\ del[2].err.text = "404 Not Found"

\* C12: on every path the result a fetcher delivers carries a non-nil
\* pointer of the type of its resource, and no type assertion of BrokerInfo
\* or of an accessor panics, also on a result that carries an error.
C12_NoPanic ==
    \A c \in Calls :
        /\ pc[c] # "panic"
        /\ \A k \in ResSet :
              HasOutcome(c, k) =>
                  /\ fetcher[c][k].out.result # NilResult
                  /\ fetcher[c][k].out.result.typ = k
                  /\ fetcher[c][k].out.result.val.typ = k

C12_Witness ==
    /\ Returned(1)
    /\ err[1].kind = "decode"
    /\ fetcher[1]["overview"].pc = "done"
    /\ fetcher[1]["overview"].out.err.kind = "transport"
    /\ fetcher[1]["bindings"].pc = "done"
    /\ r[1]["bindings"] = ZeroValue("bindings")
    /\ fetcher[1]["connections"].pc = "send"
    /\ fetcher[1]["connections"].out.err.kind = "status"

\* Every fetch started by call c has produced its result.
AllProduced(c) == \A k \in ResSet : fetcher[c][k].pc \in {"send", "done"}

\* C13: under fair scheduling, once every one of the six fetches has
\* produced its result BrokerInfo eventually returns; it returns without
\* error exactly when its counter has reached six; and once it has returned
\* it takes no further step.
C13_Termination ==
    /\ AllProduced(1) ~> Returned(1)
    /\ [](Returned(1) => (err[1] = NilErr <=> count[1] = numExpectedResources))
    /\ [][Returned(1) => /\ Returned(1)'
                         /\ count'[1] = count[1]
                         /\ r'[1] = r[1]
                         /\ err'[1] = err[1]]_vars

C13_Witness ==
    /\ AllProduced(1)
    /\ Returned(1)
    /\ err[1] = NilErr
    /\ \A k \in ResSet : fetcher[1][k].pc = "done" /\ nrecv[1][k] = 1

\* C14: no channel of a call is received from twice; the counter is the
\* number of completions consumed without error; and when BrokerInfo reports
\* success it has consumed exactly one completion from each of the six
\* channels, each iteration having written the one field of its resource.
C14_ExactlyOnce ==
    \A c \in Calls :
        /\ \A k \in ResSet : nrecv[c][k] <= 1
        /\ op[c] = "BrokerInfo" =>
              count[c] = Cardinality({k \in ResSet : nrecv[c][k] = 1 /\ OuterRes(k, fetcher[c][k].out).err = NilErr})
        /\ (Returned(c) /\ op[c] = "BrokerInfo" /\ err[c] = NilErr) =>
              /\ count[c] = numExpectedResources
              /\ \A k \in ResSet : /\ nrecv[c][k] = 1
                                   /\ fetcher[c][k].pc = "done"
                                   /\ r[c][k] = fetcher[c][k].out.result.val

C14_Witness ==
    /\ Returned(1)
    /\ err[1] = NilErr
    /\ count[1] = numExpectedResources
    /\ \A k \in ResSet : nrecv[1][k] = 1 /\ r[1][k].fill = "full"

\* C15: a fetcher hands over at most one result, it has finished exactly
\* when its one result has been received, and every result produced by a
\* fetcher of a BrokerInfo call is consumed by that call: once the call has
\* returned, no produced result is left unconsumed.
C15_ResultLifecycle ==
    \A c \in Calls : \A k \in ResSet :
        /\ nrecv[c][k] <= 1
        /\ op[c] = "BrokerInfo" => (fetcher[c][k].pc = "done" <=> nrecv[c][k] = 1)
        /\ (Returned(c) /\ HasOutcome(c, k)) => nrecv[c][k] = 1

\* C16: when the aggregator of a BrokerInfo call consumes a completion,
\* and from then on, all six fetches of the call have been started; and
\* while fetches remain to be started the next start is possible whatever
\* the state of the fetches started before it.
C16_FanOutFirst ==
    \A c \in Calls :
        op[c] = "BrokerInfo" =>
            /\ (pc[c] # "spawn" \/ \E k \in ResSet : nrecv[c][k] > 0) =>
                  \A k \in ResSet : fetcher[c][k].pc # "idle"
            /\ pc[c] = "spawn" =>
                  /\ \E k \in ResSet : fetcher[c][k].pc = "idle"
                  /\ \A k \in ResSet : nrecv[c][k] = 0
                  /\ ENABLED Spawn(c)

C16_Witness ==
    /\ op[1] = "BrokerInfo"
    /\ pc[1] = "spawn"
    /\ fetcher[1]["overview"].pc = "send"
    /\ fetcher[1]["connections"].pc = "get"
    /\ fetcher[1]["bindings"].pc = "idle"

\* C17: a step of a fetcher before its send (request, status check, decode)
\* changes that fetcher's own record and nothing else; the snapshot of a
\* call changes only in a loop iteration of that call, which writes the
\* value it received into the one field of the resource whose completion it
\* consumed, the send of that fetcher completing in the same step.
C17_SingleWriter ==
    [][\A c \in Calls : \A k \in ResSet :
          /\ (fetcher[c][k].pc \in {"get", "status", "read"} /\ fetcher'[c][k] # fetcher[c][k]) =>
                /\ r' = r /\ count' = count /\ err' = err /\ nrecv' = nrecv /\ pc' = pc
                /\ \A c2 \in Calls : \A k2 \in ResSet :
                      <<c2, k2>> # <<c, k>> => fetcher'[c2][k2] = fetcher[c2][k2]
          /\ r'[c][k] # r[c][k] =>
                /\ pc[c] = "select"
                /\ nrecv'[c][k] = nrecv[c][k] + 1
                /\ fetcher[c][k].pc = "send" /\ fetcher'[c][k].pc = "done"
                /\ r'[c][k] = fetcher[c][k].out.result.val
                /\ \A j \in ResSet \ {k} : r'[c][j] = r[c][j]
                /\ \A c2 \in Calls \ {c} : r'[c2] = r[c2]
      ]_vars

C17_Witness ==
    /\ op[1] = "BrokerInfo"
    /\ r[1]["queues"].fill = "full"
    /\ r[1]["bindings"].fill = "full"
    /\ fetcher[1]["overview"].pc = "read"
    /\ fetcher[1]["exchanges"].pc = "status"
    /\ fetcher[1]["consumers"].pc = "get"

\* C18: BrokerInfo returns only in a loop iteration that has received a
\* completion, and then only with that completion's error or with the
\* counter at six; so a call that has returned without error has consumed
\* the completion of every one of its six fetches, and while a fetch stays
\* uncompleted and no consumed completion aborts, the call stays in its
\* select.
C18_NoTimeout ==
    /\ [](\A c \in Calls :
            Returned(c) => (err[c] # NilErr \/ \A k \in ResSet : fetcher[c][k].pc = "done"))
    /\ [][\A c \in Calls :
            (op[c] = "BrokerInfo" /\ pc[c] = "select" /\ pc'[c] # "select") =>
                /\ \E k \in ResSet : fetcher[c][k].pc = "send" /\ nrecv'[c][k] = nrecv[c][k] + 1
                /\ err'[c] # NilErr \/ count'[c] = numExpectedResources]_vars

C18_Witness ==
    /\ op[1] = "BrokerInfo"
    /\ pc[1] = "select"
    /\ count[1] = numExpectedResources - 1
    /\ \E k \in ResSet : fetcher[1][k].pc = "get"
    /\ ~ENABLED (\E k \in ResSet : Recv(1, k))

\* C19: when a getResource goroutine has finished, or a delResource call
\* has returned, the body of the HTTP response it obtained, if it obtained
\* one, has been closed.
C19_BodiesClosed ==
    \A c \in Calls :
        /\ \A k \in ResSet :
              (fetcher[c][k].pc = "done" /\ fetcher[c][k].resp # NoResp) =>
                  fetcher[c][k].resp.closed
        /\ (op[c] = "CloseConnection" /\ pc[c] = "returned" /\ del[c].resp # NoResp) =>
              del[c].resp.closed

\* The calls of response, by position, that request q is due: published
\* after q's subscription, carrying q's id and the type q's pipe selects.
DueTo(q) ==
    {n \in 1..Len(api.log) :
        /\ q.sub # "none"
        /\ n > q.subAt
        /\ ~api.log[n].thrown
        /\ api.log[n].resId = q.id
        /\ api.log[n].type = PipeType(q.kind)}

\* Every item of q is the parsed response of the call it came from.
ItemsFaithful(q) ==
    \A j \in 1..Len(q.items) :
        /\ q.items[j].ev \in DueTo(q)
        /\ q.items[j].val = api.log[q.items[j].ev].response
        /\ j > 1 => q.items[j - 1].ev < q.items[j].ev

\* C20: request ids are distinct; the observable of a login emits at most
\* one item, completing with it, and that item is the first response
\* published to it with its own id and type LOGIN_RESPONSE (status SUCCESS;
\* with another status the observable ends in an error without an item);
\* the observable of a tap has delivered exactly the responses published to
\* it with its own id and type TAP, in order; no response with another id or
\* type reaches either.
C20_Correlation ==
    /\ \A i, j \in 1..Len(api.reqs) : i # j => api.reqs[i].id # api.reqs[j].id
    /\ \A i \in 1..Len(api.reqs) :
          LET q == api.reqs[i]
              due == DueTo(q)
              first == CHOOSE n \in due : \A m \in due : n <= m
          IN  /\ ItemsFaithful(q)
              /\ q.kind = "login" =>
                    /\ Len(q.items) <= 1
                    /\ Len(q.items) = 1 <=> q.sub = "completed"
                    /\ due = {} => q.sub \in {"none", "open"}
                    /\ due # {} =>
                          IF api.log[first].status = "SUCCESS"
                            THEN q.sub = "completed" /\ q.items[1].ev = first
                            ELSE q.sub = "errored"
              /\ q.kind = "tap" =>
                    /\ q.sub \in {"none", "open"}
                    /\ Len(q.items) = Cardinality(due)

C20_Witness ==
    /\ Len(api.reqs) = 2
    /\ api.reqs[1].kind = "login" /\ api.reqs[1].sub = "completed"
    /\ api.reqs[2].kind = "tap" /\ Len(api.reqs[2].items) = 1
    /\ Len(api.log) = 3
    /\ \E n \in 1..3 : api.log[n].resId = api.reqs[1].id /\ api.log[n].type = "TAP"
    /\ api.reqs[2].items[1].ev < api.reqs[1].items[1].ev

====
